---- MODULE Spec2Model ----
(***************************************************************************)
(* Biathlon competition event processor (src/main.go).                     *)
(*                                                                         *)
(* main reads a configuration and a list of events, sorts the events by    *)
(* time, runs every event through one switch statement that updates a      *)
(* registry of competitors, and prints one result line per competitor.     *)
(*                                                                         *)
(* Strings are sequences of one-character strings.  The characters that    *)
(* occur in the model are the decimal digits, ":", "." and the letter "s". *)
(* Instants and durations are counted in milliseconds, the precision of    *)
(* the input; both are held as a pair of a day count and the milliseconds  *)
(* within the day.                                                         *)
(***************************************************************************)
EXTENDS Integers, Sequences, FiniteSets, TLC

(***************************************************************************)
(* Bounds of the model.                                                    *)
(***************************************************************************)
\* How many events the loop of main processes in one run.
MaxEvents == 4
\* The configured number of laps ranges over 0..MaxLaps.
MaxLaps == 1
\* How many events the sorted events file holds (SpecSort).
MaxInput == 2
\* How many characters a startDelta string holds (SpecDelta).
MaxLen == 5

(***************************************************************************)
(* time.Time and time.Duration                                             *)
(***************************************************************************)
MsPerSecond == 10 * 10 * 10
MsPerMinute == 60 * MsPerSecond
MsPerHour == 60 * MsPerMinute
MsPerDay == 24 * MsPerHour

\* A day count and a millisecond count brought to 0 <= ms < MsPerDay.
Norm(d, ms) == [d |-> d + (ms \div MsPerDay), ms |-> ms % MsPerDay]

\* time.Duration of n milliseconds.
Millis(n) == Norm(0, n)

\* The time of day h:m:s.ms as time.Parse returns it: on 1 January of year 0.
Clock(h, m, s, ms) == [d |-> 0, ms |-> h * MsPerHour + m * MsPerMinute + s * MsPerSecond + ms]

\* time.Time{}, the zero value of a time.Time field: 1 January of year 1,
\* which is 366 days after the day of every parsed time of day.
ZeroTime == [d |-> 366, ms |-> 0]

\* t.Sub(u)
Sub(t, u) == Norm(t.d - u.d, t.ms - u.ms)

\* t.Add(dur)
Add(t, dur) == Norm(t.d + dur.d, t.ms + dur.ms)

\* t.Before(u), t.After(u), t.Equal(u)
Before(t, u) == t.d < u.d \/ (t.d = u.d /\ t.ms < u.ms)
After(t, u) == Before(u, t)
Equal(t, u) == t.d = u.d /\ t.ms = u.ms

\* a > b on time.Duration
Longer(a, b) == Before(b, a)

\* The duration 0.
NoDuration == Millis(0)

(***************************************************************************)
(* Strings                                                                 *)
(***************************************************************************)
DigitChars == <<"0", "1", "2", "3", "4", "5", "6", "7", "8", "9">>
Digits == {DigitChars[i] : i \in 1..10}

IsDigit(c) == c \in Digits
DigitVal(c) == (CHOOSE i \in 1..10 : DigitChars[i] = c) - 1

\* isDigit(s, i) of package time, with i counted from 1.
IsDigitAt(s, i) == i <= Len(s) /\ IsDigit(s[i])

\* The characters of s from position i on.
From(s, i) == SubSeq(s, i, Len(s))

\* The number a string of digits denotes.
RECURSIVE DecVal(_)
DecVal(s) == IF s = <<>> THEN 0 ELSE 10 * DecVal(SubSeq(s, 1, Len(s) - 1)) + DigitVal(s[Len(s)])

AllDigits(s) == \A i \in 1..Len(s) : IsDigit(s[i])

\* strings.Split(s, ":")
RECURSIVE Split(_)
Split(s) ==
    IF \A i \in 1..Len(s) : s[i] # ":"
    THEN <<s>>
    ELSE LET i == CHOOSE j \in 1..Len(s) : s[j] = ":" /\ \A k \in 1..(j - 1) : s[k] # ":"
         IN  <<SubSeq(s, 1, i - 1)>> \o Split(From(s, i + 1))

\* strconv.Atoi(s): the value and whether Atoi reports an error.  On a syntax
\* error strconv returns 0.
Atoi(s) ==
    IF s # <<>> /\ AllDigits(s)
    THEN [val |-> DecVal(s), err |-> FALSE]
    ELSE [val |-> 0, err |-> TRUE]

\* strconv.ParseFloat(s, 64) on the model's characters: digits with at most
\* one "." among them and at least one digit.  The float it returns is the
\* double nearest to int + milli/1000; milli pads or cuts the fraction to
\* three digits (the model's strings hold at most three).
ParseFloat(s) ==
    LET dots == {i \in 1..Len(s) : s[i] = "."}
        p == IF dots = {} THEN Len(s) + 1 ELSE CHOOSE i \in dots : TRUE
        ip == SubSeq(s, 1, p - 1)
        fp == From(s, p + 1)
        ok == /\ Cardinality(dots) <= 1
              /\ AllDigits(ip) /\ AllDigits(fp)
              /\ Len(ip) + Len(fp) >= 1
        f3 == SubSeq(fp \o <<"0", "0", "0">>, 1, 3)
    IN  IF ok
        THEN [int |-> DecVal(ip), milli |-> DecVal(f3), err |-> FALSE]
        ELSE [int |-> 0, milli |-> 0, err |-> TRUE]

(***************************************************************************)
(* float64 arithmetic of parseDelta                                        *)
(***************************************************************************)
RECURSIVE Pow2(_)
Pow2(n) == IF n <= 0 THEN 1 ELSE 2 * Pow2(n - 1)

\* 2^n modulo 1000
RECURSIVE Pow2Mod(_)
Pow2Mod(n) == IF n <= 0 THEN 1 ELSE (2 * Pow2Mod(n - 1)) % 1000

\* floor(log2(a / b)) for positive integers a and b
RECURSIVE Log2Floor(_, _)
Log2Floor(a, b) ==
    IF a < b THEN Log2Floor(2 * a, b) - 1
    ELSE IF a >= 2 * b THEN Log2Floor(a, 2 * b) + 1
    ELSE 0

IsPow2(n) == \E j \in 0..30 : Pow2(j) = n

\* int((sSec - float64(sec)) * 1000) where sSec is the double nearest to
\* sec + milli/1000.  With e the binary exponent of sSec, sSec is N / 2^(52-e)
\* for the integer N nearest to (sec*1000 + milli) * 2^(52-e) / 1000; r is
\* 1000*N minus that numerator, so the exact product is milli + r / 2^(52-e).
\* The multiplication rounds the product to a double, and the conversion to
\* int cuts it: a double below milli gives milli - 1.
FracMillis(sec, milli) ==
    IF milli = 0 THEN 0
    ELSE LET M == sec * 1000 + milli
             e == Log2Floor(M, 1000)
             q == ((M % 1000) * Pow2Mod(52 - e)) % 1000
             r == IF q < 500 THEN 0 - q ELSE 1000 - q
             g == Log2Floor(milli, 1) - (IF IsPow2(milli) THEN 1 ELSE 0)
         IN  IF r >= 0 THEN milli
             ELSE IF g - e - 1 >= 0 /\ 0 - r <= Pow2(g - e - 1) THEN milli
             ELSE milli - 1

(***************************************************************************)
(* parseDelta                                                              *)
(***************************************************************************)
\* parseDelta(s): the duration in milliseconds and whether an error is
\* returned.  The errors of Atoi and ParseFloat are dropped and their zero
\* results used.
parseDelta(s) ==
    LET parts == Split(s)
    IN  IF Len(parts) # 3
        THEN [d |-> 0, err |-> TRUE]
        ELSE LET h == Atoi(parts[1]).val
                 m == Atoi(parts[2]).val
                 sSec == ParseFloat(parts[3])
                 sec == sSec.int
                 msec == FracMillis(sec, sSec.milli)
             IN  [d |-> h * MsPerHour + m * MsPerMinute + sec * MsPerSecond + msec,
                  err |-> FALSE]

(***************************************************************************)
(* time.Parse                                                              *)
(***************************************************************************)
\* getnum(s, fixed) of package time: one or two leading digits, two when
\* fixed.  n is how many characters were read, 0 when getnum fails.
GetNum(s, fixed) ==
    IF ~IsDigitAt(s, 1) THEN [n |-> 0, val |-> 0]
    ELSE IF ~IsDigitAt(s, 2)
         THEN IF fixed THEN [n |-> 0, val |-> 0] ELSE [n |-> 1, val |-> DigitVal(s[1])]
         ELSE [n |-> 2, val |-> 10 * DigitVal(s[1]) + DigitVal(s[2])]

\* How many leading characters of s are digits.
RECURSIVE DigitRun(_)
DigitRun(s) == IF IsDigitAt(s, 1) THEN 1 + DigitRun(From(s, 2)) ELSE 0

\* The fraction of a second that follows the seconds field.  frac tells
\* whether the layout ends in ".000": then a "." and exactly three digits
\* are read; without it a "." followed by digits is read when present.  n is
\* how many characters were read, -1 when the read fails; the model's
\* strings hold at most three digits of fraction.
Fraction(s, frac) ==
    IF frac
    THEN IF Len(s) >= 4 /\ s[1] = "." /\ AllDigits(SubSeq(s, 2, 4))
         THEN [n |-> 4, ms |-> DecVal(SubSeq(s, 2, 4))]
         ELSE [n |-> 0 - 1, ms |-> 0]
    ELSE IF Len(s) >= 2 /\ s[1] = "." /\ IsDigitAt(s, 2)
         THEN LET k == DigitRun(From(s, 2))
              IN  [n |-> 1 + k,
                   ms |-> DecVal(SubSeq(SubSeq(s, 2, 1 + k) \o <<"0", "0", "0">>, 1, 3))]
         ELSE [n |-> 0, ms |-> 0]

\* time.Parse(layout, s) for the layouts "15:04:05.000" (frac) and
\* "15:04:05": the time and whether an error is returned.  On an error
\* time.Parse returns time.Time{}.
ParseClock(frac, s) ==
    LET bad == [t |-> ZeroTime, err |-> TRUE]
        h == GetNum(s, FALSE)
        s1 == From(s, h.n + 1)
        m == GetNum(From(s1, 2), TRUE)
        s2 == From(s1, 2 + m.n)
        sec == GetNum(From(s2, 2), TRUE)
        s3 == From(s2, 2 + sec.n)
        f == Fraction(s3, frac)
    IN  IF h.n = 0 \/ h.val >= 24 THEN bad
        ELSE IF s1 = <<>> \/ s1[1] # ":" THEN bad
        ELSE IF m.n = 0 \/ m.val >= 60 THEN bad
        ELSE IF s2 = <<>> \/ s2[1] # ":" THEN bad
        ELSE IF sec.n = 0 \/ sec.val >= 60 THEN bad
        ELSE IF f.n < 0 \/ f.n # Len(s3) THEN bad
        ELSE [t |-> Clock(h.val, m.val, sec.val, f.ms), err |-> FALSE]

(***************************************************************************)
(* Event kinds (the const block of main.go)                                *)
(***************************************************************************)
undefined == 0
register == 1
startTime == 2
startLine == 3
isStarted == 4
onTheFiringRange == 5
hit == 6
leftTheFiringRange == 7
enteredThePenaltyLaps == 8
leftThePenaltyLaps == 9
endedTheMainLap == 10
comment == 11

(***************************************************************************)
(* Inputs of the model                                                     *)
(***************************************************************************)
\* Competitor identifiers that occur in events.
CompetitorIDs == {1, 2}

\* Event kinds that occur in events: the eleven known ones, 0 and 12.
EventIDs == 0..12

\* The strings "10:00:0k.000" and the time of day they denote.
Stamp(k) == <<"1", "0", ":", "0", "0", ":", "0", DigitChars[k + 1], ".", "0", "0", "0">>
At(k) == Clock(10, 0, k, 0)

\* Seconds after 10:00:00 at which events happen and starts are drawn.
Ticks == 0..2

\* The payload of a startTime event: a time of day, or a string that is none.
StartPayloads == {Stamp(k) : k \in Ticks} \cup {<<"s">>}

\* type Event (RawTime is the text Time was parsed from and is only printed).
\* Extra is read by the startTime case alone.
Events ==
    [Time : {At(k) : k \in Ticks}, EventID : EventIDs \ {startTime},
     CompetitorID : CompetitorIDs, Extra : {<<>>}]
    \cup
    [Time : {At(k) : k \in Ticks}, EventID : {startTime},
     CompetitorID : CompetitorIDs, Extra : StartPayloads]

\* type Config: the fields main and printResults read apart from the lengths
\* that only enter the printed speeds.
Configs ==
    [Laps : 0..MaxLaps,
     Start : {Stamp(0)},
     StartDelta : {<<"0", "0", ":", "0", "0", ":", "0", "1">>}]

(***************************************************************************)
(* State                                                                   *)
(***************************************************************************)
VARIABLES
    cfg,          \* main: cfg, as loaded
    input,        \* main: events as loadEvents returned them
    events,       \* main: events after sort.Slice
    pos,          \* how many events the loop has taken
    e,            \* main: the loop variable e, the event taken last
    competitors,  \* main: competitors, a function from the registered IDs
    startOrder,   \* main: startOrder
    pc,           \* where main is: "config", "badStart", "badDelta", "events",
                  \* "sort", "loop", "panic" (a nil dereference) or "done"
    report,       \* the lines printResults printed, in the order printed
    track,        \* history: how far each identifier is along the plain race
    drawLate,     \* history: what became of the start interval rule's flag
    hist          \* history: what the events taken so far were

vars == <<cfg, input, events, pos, e, competitors, startOrder, pc, report, track, drawLate, hist>>

\* main: baseStart and delta, both derived from cfg before the loop
baseStart == ParseClock(TRUE, cfg.Start).t
delta == Millis(parseDelta(cfg.StartDelta).d)

\* case startTime: deltaTime, and the duration the case compares with,
\* deltaTime.Sub(time.Date(...)) with the date of deltaTime at midnight
deltaTime == ParseClock(FALSE, cfg.StartDelta).t
interval == Sub(deltaTime, [d |-> deltaTime.d, ms |-> 0])

\* &Competitor{ID: id}
NewCompetitor(id) ==
    [ID |-> id, Started |-> FALSE, LapsCompleted |-> 0, Hits |-> 0,
     isDisqualified |-> FALSE, isNotFinished |-> FALSE,
     StartTime |-> ZeroTime, FinishTime |-> ZeroTime, StartPenalty |-> ZeroTime,
     lapTimes |-> <<>>, PenaltyTimes |-> <<>>]

\* Event{}
NoEvent == [Time |-> ZeroTime, EventID |-> undefined, CompetitorID |-> 0, Extra |-> <<>>]

\* track[id].phase is "none" before the first register event of id, then
\* "registered", "assigned" once a start within the interval was drawn,
\* "started" once id started in time, with ended counting the main laps
\* ended since and lastLap the time of the last of them; any other course
\* (a second register or draw, a flagged draw, a late start, a lap ended
\* before the start, a comment) leaves it "off".
\* drawLate[id] is "never" until the start interval rule flags id, "flagged"
\* from then on, and "replaced" once a register event has replaced the
\* flagged record.
\* hist.regOrder lists the identifiers in the order of their first register
\* event; hist.lastDraw is the start time the startTime event taken last
\* stored; hist.entered[id] is the time of the last enteredThePenaltyLaps
\* event of id; hist.lapAppends[id] counts the lap times endedTheMainLap
\* events appended since the last register event of id; hist.skipped tells
\* whether an event was taken that the switch only prints.
NoTrack == [phase |-> "none", ended |-> 0, lastLap |-> ZeroTime]
OffTrack == [phase |-> "off", ended |-> 0, lastLap |-> ZeroTime]
NoHist ==
    [regOrder |-> <<>>,
     lastDraw |-> [any |-> FALSE, at |-> ZeroTime],
     entered |-> [id \in CompetitorIDs |-> [any |-> FALSE, at |-> ZeroTime]],
     lapAppends |-> [id \in CompetitorIDs |-> 0],
     skipped |-> FALSE]

\* competitors[e.CompetitorID] is nil
Unregistered(ev) == ev.CompetitorID \notin DOMAIN competitors

\* The registry with the record of ev's competitor replaced by c.
Store(ev, c) == [competitors EXCEPT ![ev.CompetitorID] = c]

(***************************************************************************)
(* The loop of main: one action per case of the switch                     *)
(***************************************************************************)
\* for _, e := range events: the loop takes ev.
Take(ev) ==
    /\ pc = "loop"
    /\ e' = ev
    /\ pos' = pos + 1
    /\ UNCHANGED <<cfg, input, events, report>>

\* A field of the nil *Competitor is read or written: the run panics.
Panic ==
    /\ pc' = "panic"
    /\ UNCHANGED <<competitors, startOrder, track, drawLate, hist>>

\* case register
CaseRegister(ev) ==
    /\ ev.EventID = register
    /\ Take(ev)
    /\ competitors' =
           [id \in DOMAIN competitors \cup {ev.CompetitorID} |->
               IF id = ev.CompetitorID THEN NewCompetitor(id) ELSE competitors[id]]
    /\ track' = [track EXCEPT ![ev.CompetitorID] =
                     IF @.phase = "none" THEN [@ EXCEPT !.phase = "registered"] ELSE OffTrack]
    /\ drawLate' = [drawLate EXCEPT ![ev.CompetitorID] =
                        IF @ = "flagged" THEN "replaced" ELSE @]
    /\ hist' = [hist EXCEPT !.regOrder = IF ev.CompetitorID \in DOMAIN competitors
                                         THEN @ ELSE Append(@, ev.CompetitorID),
                            !.lapAppends[ev.CompetitorID] = 0]
    /\ UNCHANGED <<startOrder, pc>>

\* case startTime: the start time the drawn one is compared with, baseStart
\* or the StartTime of the last element of startOrder
previous ==
    IF Len(startOrder) = 0 THEN baseStart ELSE startOrder[Len(startOrder)].StartTime

\* A start interval rule that stores the outcome of its comparison.
IntervalFlagStored(start, flag) == Longer(Sub(start, previous), interval)

\* A start interval rule that compares with the first start drawn.
IntervalFlagFirstDraw(start, flag) ==
    IF Longer(Sub(start, IF Len(startOrder) = 0 THEN baseStart ELSE startOrder[1].StartTime),
              interval)
    THEN TRUE ELSE flag

\* A start interval rule that also flags a start just the interval later.
IntervalFlagAtBound(start, flag) ==
    IF ~Longer(interval, Sub(start, previous)) THEN TRUE ELSE flag

\* The flag the start interval rule gives a competitor whose start is drawn
\* as start, given the flag it has.
IntervalFlag(start, flag) ==
    IF Longer(Sub(start, previous), interval) THEN TRUE ELSE flag

\* case startTime
CaseStartTime(ev) ==
    /\ ev.EventID = startTime
    /\ Take(ev)
    /\ IF Unregistered(ev) THEN Panic
       ELSE LET comp == competitors[ev.CompetitorID]
                start == ParseClock(TRUE, ev.Extra).t
                fired == IntervalFlag(start, FALSE)
                drawn == [comp EXCEPT !.StartTime = start,
                                      !.isNotFinished = IntervalFlag(start, @)]
            IN  /\ competitors' = Store(ev, drawn)
                /\ startOrder' = Append(startOrder, drawn)
                /\ drawLate' = IF fired THEN [drawLate EXCEPT ![ev.CompetitorID] = "flagged"]
                               ELSE drawLate
                /\ track' = [track EXCEPT ![ev.CompetitorID] =
                                 IF @.phase = "registered" /\ ~fired
                                 THEN [@ EXCEPT !.phase = "assigned"] ELSE OffTrack]
                /\ hist' = [hist EXCEPT !.lastDraw = [any |-> TRUE, at |-> start]]
                /\ pc' = pc

\* A startLine case that takes the competitor on the line as started.
CaseStartLineStarts(ev) ==
    /\ ev.EventID = startLine
    /\ Take(ev)
    /\ hist' = [hist EXCEPT !.skipped = TRUE]
    /\ competitors' = [id \in DOMAIN competitors |->
                          IF id = ev.CompetitorID
                          THEN [competitors[id] EXCEPT !.Started = TRUE]
                          ELSE competitors[id]]
    /\ UNCHANGED <<startOrder, pc, track, drawLate>>

\* case startLine
CaseStartLine(ev) ==
    /\ ev.EventID = startLine
    /\ Take(ev)
    /\ hist' = [hist EXCEPT !.skipped = TRUE]
    /\ UNCHANGED <<competitors, startOrder, pc, track, drawLate>>

\* A late start rule that also flags a start at the last moment allowed.
LateFlagAtBound(comp, at) ==
    IF ~Before(at, Add(comp.StartTime, delta)) THEN TRUE ELSE comp.isNotFinished

\* The flag the late start rule gives a competitor that starts at time at.
LateFlag(comp, at) ==
    LET allowed == Add(comp.StartTime, delta)
    IN  IF After(at, allowed) THEN TRUE ELSE comp.isNotFinished

\* case isStarted
CaseIsStarted(ev) ==
    /\ ev.EventID = isStarted
    /\ Take(ev)
    /\ IF Unregistered(ev) THEN Panic
       ELSE LET comp == competitors[ev.CompetitorID]
                late == LateFlag([comp EXCEPT !.isNotFinished = FALSE], ev.Time)
            IN  /\ competitors' = Store(ev, [comp EXCEPT !.isNotFinished = LateFlag(comp, ev.Time),
                                                         !.Started = TRUE])
                /\ track' = [track EXCEPT ![ev.CompetitorID] =
                                 IF @.phase = "assigned" /\ ~late
                                 THEN [@ EXCEPT !.phase = "started"] ELSE OffTrack]
                /\ UNCHANGED <<startOrder, pc, drawLate, hist>>

\* case onTheFiringRange
CaseOnTheFiringRange(ev) ==
    /\ ev.EventID = onTheFiringRange
    /\ Take(ev)
    /\ hist' = [hist EXCEPT !.skipped = TRUE]
    /\ UNCHANGED <<competitors, startOrder, pc, track, drawLate>>

\* case hit
CaseHit(ev) ==
    /\ ev.EventID = hit
    /\ Take(ev)
    /\ IF Unregistered(ev) THEN Panic
       ELSE /\ competitors' = Store(ev, [competitors[ev.CompetitorID] EXCEPT !.Hits = @ + 1])
            /\ UNCHANGED <<startOrder, pc, track, drawLate, hist>>

\* case leftTheFiringRange: the printed line reads comp.LapsCompleted
CaseLeftTheFiringRange(ev) ==
    /\ ev.EventID = leftTheFiringRange
    /\ Take(ev)
    /\ IF Unregistered(ev) THEN Panic
       ELSE /\ hist' = [hist EXCEPT !.skipped = TRUE]
            /\ UNCHANGED <<competitors, startOrder, pc, track, drawLate>>

\* case enteredThePenaltyLaps
CaseEnteredThePenaltyLaps(ev) ==
    /\ ev.EventID = enteredThePenaltyLaps
    /\ Take(ev)
    /\ IF Unregistered(ev) THEN Panic
       ELSE /\ competitors' = Store(ev, [competitors[ev.CompetitorID] EXCEPT !.StartPenalty = ev.Time])
            /\ hist' = [hist EXCEPT !.entered[ev.CompetitorID] = [any |-> TRUE, at |-> ev.Time]]
            /\ UNCHANGED <<startOrder, pc, track, drawLate>>

\* The record after comp leaves the penalty laps at time at.
LeftPenalty(comp, at) ==
    [comp EXCEPT !.PenaltyTimes = Append(@, Sub(at, comp.StartPenalty))]

\* case leftThePenaltyLaps
CaseLeftThePenaltyLaps(ev) ==
    /\ ev.EventID = leftThePenaltyLaps
    /\ Take(ev)
    /\ IF Unregistered(ev) THEN Panic
       ELSE /\ competitors' = Store(ev, LeftPenalty(competitors[ev.CompetitorID], ev.Time))
            /\ UNCHANGED <<startOrder, pc, track, drawLate, hist>>

\* An end of lap that times the lap from the end of the lap before.
EndedLapSplit(comp, at) ==
    LET laps == comp.LapsCompleted + 1
    IN  [comp EXCEPT !.LapsCompleted = laps,
                     !.lapTimes = IF Len(@) = 0 /\ laps = cfg.Laps
                                  THEN Append(@, Sub(at, comp.FinishTime)) ELSE @,
                     !.FinishTime = at]

\* An end of lap that times the first lap ended, whatever its number.
EndedLapUnbounded(comp, at) ==
    [comp EXCEPT !.LapsCompleted = @ + 1,
                 !.lapTimes = IF Len(@) = 0 THEN Append(@, Sub(at, comp.StartTime)) ELSE @,
                 !.FinishTime = at]

\* An end of lap that times no lap.
EndedLapUntimed(comp, at) ==
    [comp EXCEPT !.LapsCompleted = @ + 1, !.FinishTime = at]

\* The record after comp ends a main lap at time at.
EndedLap(comp, at) ==
    LET laps == comp.LapsCompleted + 1
    IN  [comp EXCEPT !.LapsCompleted = laps,
                     !.lapTimes = IF Len(@) = 0 /\ laps = cfg.Laps
                                  THEN Append(@, Sub(at, comp.StartTime)) ELSE @,
                     !.FinishTime = at]

\* case endedTheMainLap
CaseEndedTheMainLap(ev) ==
    /\ ev.EventID = endedTheMainLap
    /\ Take(ev)
    /\ IF Unregistered(ev) THEN Panic
       ELSE /\ competitors' = Store(ev, EndedLap(competitors[ev.CompetitorID], ev.Time))
            /\ track' = [track EXCEPT ![ev.CompetitorID] =
                             IF @.phase = "started"
                             THEN [@ EXCEPT !.ended = @ + 1, !.lastLap = ev.Time] ELSE OffTrack]
            /\ hist' = [hist EXCEPT !.lapAppends[ev.CompetitorID] =
                            @ + Len(competitors'[ev.CompetitorID].lapTimes)
                              - Len(competitors[ev.CompetitorID].lapTimes)]
            /\ UNCHANGED <<startOrder, pc, drawLate>>

\* The record after a comment on comp at time at.
Commented(comp, at) ==
    [comp EXCEPT !.lapTimes = IF comp.LapsCompleted # cfg.Laps
                              THEN Append(@, Sub(at, comp.StartTime)) ELSE @,
                 !.isDisqualified = TRUE]

\* case comment
CaseComment(ev) ==
    /\ ev.EventID = comment
    /\ Take(ev)
    /\ IF Unregistered(ev) THEN Panic
       ELSE /\ competitors' = Store(ev, Commented(competitors[ev.CompetitorID], ev.Time))
            /\ track' = [track EXCEPT ![ev.CompetitorID] = OffTrack]
            /\ UNCHANGED <<startOrder, pc, drawLate, hist>>

\* default: the kind is printed as unknown
CaseDefault(ev) ==
    /\ ev.EventID \notin register..comment
    /\ Take(ev)
    /\ hist' = [hist EXCEPT !.skipped = TRUE]
    /\ UNCHANGED <<competitors, startOrder, pc, track, drawLate>>

(***************************************************************************)
(* printResults                                                            *)
(***************************************************************************)
\* A status that tests the flags in another order.
StatusFlagFirst(comp) ==
    IF comp.isNotFinished
    THEN [text |-> "[NotStarted]", elapsed |-> NoDuration]
    ELSE IF Equal(comp.FinishTime, ZeroTime) \/ comp.isDisqualified
            \/ comp.LapsCompleted # cfg.Laps
    THEN [text |-> "[NotFinished]", elapsed |-> NoDuration]
    ELSE IF comp.Started
    THEN [text |-> "Duration", elapsed |-> Sub(comp.FinishTime, comp.StartTime)]
    ELSE [text |-> "[Unknown]", elapsed |-> NoDuration]

\* The status printResults prints for comp: one of three fixed texts, or
\* the text of the duration elapsed.
Status(comp) ==
    IF Equal(comp.FinishTime, ZeroTime) \/ comp.isDisqualified
       \/ comp.LapsCompleted # cfg.Laps
    THEN [text |-> "[NotFinished]", elapsed |-> NoDuration]
    ELSE IF comp.isNotFinished
    THEN [text |-> "[NotStarted]", elapsed |-> NoDuration]
    ELSE IF comp.Started
    THEN [text |-> "Duration", elapsed |-> Sub(comp.FinishTime, comp.StartTime)]
    ELSE [text |-> "[Unknown]", elapsed |-> NoDuration]

\* The line printed for comp, without the speeds printed beside each time.
Line(comp) ==
    [status |-> Status(comp), ID |-> comp.ID, LapsCompleted |-> comp.LapsCompleted,
     lapTimes |-> comp.lapTimes, PenaltyTimes |-> comp.PenaltyTimes,
     Hits |-> comp.Hits, capacity |-> cfg.Laps * 5]

\* The orders in which a range over a map with the keys S visits them.
Orders(S) ==
    {f \in [1..Cardinality(S) -> S] : \A i, j \in 1..Cardinality(S) : i # j => f[i] # f[j]}

\* printResults(competitors, cfg), called when the loop has taken every event
PrintResults ==
    /\ pc = "loop"
    /\ pc' = "done"
    /\ \E order \in Orders(DOMAIN competitors) :
           report' = [i \in 1..Len(order) |-> Line(competitors[order[i]])]
    /\ UNCHANGED <<cfg, input, events, pos, e, competitors, startOrder, track, drawLate, hist>>

(***************************************************************************)
(* main from the loop on.  The sorted slice is supplied one event at a     *)
(* time: the loop takes any event that is not before the one taken last,   *)
(* and the slice may end after any event.                                  *)
(***************************************************************************)
Init ==
    /\ cfg \in Configs
    /\ input = <<>>
    /\ events = <<>>
    /\ pos = 0
    /\ e = NoEvent
    /\ competitors = <<>>
    /\ startOrder = <<>>
    /\ pc = "loop"
    /\ report = <<>>
    /\ track = [id \in CompetitorIDs |-> NoTrack]
    /\ drawLate = [id \in CompetitorIDs |-> "never"]
    /\ hist = NoHist

\* The events the loop may take next.
Offered ==
    {ev \in Events : pos < MaxEvents /\ (pos = 0 \/ ~Before(ev.Time, e.Time))}

Next ==
    \/ \E ev \in Offered : CaseRegister(ev)
    \/ \E ev \in Offered : CaseStartTime(ev)
    \/ \E ev \in Offered : CaseStartLine(ev)
    \/ \E ev \in Offered : CaseIsStarted(ev)
    \/ \E ev \in Offered : CaseOnTheFiringRange(ev)
    \/ \E ev \in Offered : CaseHit(ev)
    \/ \E ev \in Offered : CaseLeftTheFiringRange(ev)
    \/ \E ev \in Offered : CaseEnteredThePenaltyLaps(ev)
    \/ \E ev \in Offered : CaseLeftThePenaltyLaps(ev)
    \/ \E ev \in Offered : CaseEndedTheMainLap(ev)
    \/ \E ev \in Offered : CaseComment(ev)
    \/ \E ev \in Offered : CaseDefault(ev)
    \/ PrintResults

Spec == Init /\ [][Next]_vars

(***************************************************************************)
(* main from sort.Slice on, for an events file of at most MaxInput events  *)
(***************************************************************************)
\* The sequences of at most n members of S.
SeqsUpTo(S, n) == UNION {[1..k -> S] : k \in 0..n}

\* The rearrangements of the sequence s.
Rearranged(s) ==
    {[i \in 1..Len(s) |-> s[f[i]]] : f \in Orders(1..Len(s))}

\* No event of s is before the event ahead of it.
InTimeOrder(s) == \A i \in 1..(Len(s) - 1) : ~Before(s[i + 1].Time, s[i].Time)

\* sort.Slice(events, less) with less comparing the times: the slice ends up
\* in an order less agrees with; sort.Slice does not promise to keep the
\* order of elements neither of which is less than the other.
SortEvents ==
    /\ pc = "sort"
    /\ events' \in {s \in Rearranged(input) : InTimeOrder(s)}
    /\ pc' = "loop"
    /\ UNCHANGED <<cfg, input, pos, e, competitors, startOrder, report, track, drawLate, hist>>

InitSort ==
    /\ cfg \in Configs
    /\ input \in SeqsUpTo(Events, MaxInput)
    /\ events = <<>>
    /\ pos = 0
    /\ e = NoEvent
    /\ competitors = <<>>
    /\ startOrder = <<>>
    /\ pc = "sort"
    /\ report = <<>>
    /\ track = [id \in CompetitorIDs |-> NoTrack]
    /\ drawLate = [id \in CompetitorIDs |-> "never"]
    /\ hist = NoHist

\* The event the loop takes next from the sorted slice, if one is left.
Sorted == IF pos < Len(events) THEN {events[pos + 1]} ELSE {}

NextSort ==
    \/ SortEvents
    \/ \E ev \in Sorted : CaseRegister(ev)
    \/ \E ev \in Sorted : CaseStartTime(ev)
    \/ \E ev \in Sorted : CaseStartLine(ev)
    \/ \E ev \in Sorted : CaseIsStarted(ev)
    \/ \E ev \in Sorted : CaseOnTheFiringRange(ev)
    \/ \E ev \in Sorted : CaseHit(ev)
    \/ \E ev \in Sorted : CaseLeftTheFiringRange(ev)
    \/ \E ev \in Sorted : CaseEnteredThePenaltyLaps(ev)
    \/ \E ev \in Sorted : CaseLeftThePenaltyLaps(ev)
    \/ \E ev \in Sorted : CaseEndedTheMainLap(ev)
    \/ \E ev \in Sorted : CaseComment(ev)
    \/ \E ev \in Sorted : CaseDefault(ev)
    \/ (pos = Len(events) /\ PrintResults)

SpecSort == InitSort /\ [][NextSort]_vars

(***************************************************************************)
(* main up to the loop, for every startDelta of at most MaxLen characters  *)
(***************************************************************************)
\* The characters of the startDelta strings.
DeltaChars == {"0", "1", ":", ".", "s"}

DeltaConfigs ==
    [Laps : {1}, Start : {Stamp(0)}, StartDelta : SeqsUpTo(DeltaChars, MaxLen)]

\* main, from time.Parse(timeLayout, cfg.Start) to the check of the error
\* of parseDelta: either message ends the run.
StartUp ==
    /\ pc = "config"
    /\ pc' = IF ParseClock(TRUE, cfg.Start).err THEN "badStart"
             ELSE IF parseDelta(cfg.StartDelta).err THEN "badDelta"
             ELSE "events"
    /\ UNCHANGED <<cfg, input, events, pos, e, competitors, startOrder, report, track, drawLate, hist>>

InitDelta ==
    /\ cfg \in DeltaConfigs
    /\ input = <<>>
    /\ events = <<>>
    /\ pos = 0
    /\ e = NoEvent
    /\ competitors = <<>>
    /\ startOrder = <<>>
    /\ pc = "config"
    /\ report = <<>>
    /\ track = [id \in CompetitorIDs |-> NoTrack]
    /\ drawLate = [id \in CompetitorIDs |-> "never"]
    /\ hist = NoHist

NextDelta == StartUp

SpecDelta == InitDelta /\ [][NextDelta]_vars

(***************************************************************************)
(* main up to the loop, for the startDelta strings HH:MM:SS and            *)
(* HH:MM:SS.mmm                                                            *)
(***************************************************************************)
\* The seconds of these strings range over 0..MaxSeconds.
MaxSeconds == 3

\* n written with two and with three digits.
TwoDigits(n) == <<DigitChars[(n \div 10) + 1], DigitChars[(n % 10) + 1]>>
ThreeDigits(n) == <<DigitChars[(n \div 100) + 1]>> \o TwoDigits(n % 100)

\* The strings HH:MM:SS and HH:MM:SS.mmm
Form(h, m, sec) == TwoDigits(h) \o <<":">> \o TwoDigits(m) \o <<":">> \o TwoDigits(sec)
FormMs(h, m, sec, ms) == Form(h, m, sec) \o <<".">> \o ThreeDigits(ms)

\* The first and the last hour and minute, a few seconds, every millisecond.
FormDeltas ==
    {Form(h, m, sec) : h \in {0, 23}, m \in {0, 59}, sec \in 0..MaxSeconds}
    \cup
    {FormMs(hm[1], hm[2], sec, ms) :
         hm \in {0, 23} \X {0, 59}, sec \in 0..MaxSeconds, ms \in 0..999}

FormConfigs == [Laps : {1}, Start : {Stamp(0)}, StartDelta : FormDeltas]

InitForm ==
    /\ cfg \in FormConfigs
    /\ input = <<>>
    /\ events = <<>>
    /\ pos = 0
    /\ e = NoEvent
    /\ competitors = <<>>
    /\ startOrder = <<>>
    /\ pc = "config"
    /\ report = <<>>
    /\ track = [id \in CompetitorIDs |-> NoTrack]
    /\ drawLate = [id \in CompetitorIDs |-> "never"]
    /\ hist = NoHist

SpecForm == InitForm /\ [][NextDelta]_vars

(***************************************************************************)
(* Properties                                                              *)
(***************************************************************************)
\* The loop takes an event in this step.
Taken == pc = "loop" /\ pos' = pos + 1

\* s is a prefix of u.
IsPrefix(s, u) == Len(s) <= Len(u) /\ SubSeq(u, 1, Len(s)) = s

\* Rule 1 of the status precedence applies to comp.
Unfinished(comp) ==
    \/ comp.FinishTime = ZeroTime
    \/ comp.isDisqualified
    \/ comp.LapsCompleted # cfg.Laps

\* C1: after any sequence of events, every competitor of the registry has
\* one printed line, and its status is: NotFinished if the finish time is
\* unset, or it is disqualified, or its laps differ from the configured
\* laps; else NotStarted if its not-started flag is set; else the time from
\* its scheduled start to its finish if it started; else Unknown.
C1_StatusPrecedence ==
    pc = "done" =>
        /\ {report[i].ID : i \in 1..Len(report)} = DOMAIN competitors
        /\ \A i \in 1..Len(report) :
               LET comp == competitors[report[i].ID]
                   status == report[i].status
               IN  /\ Unfinished(comp) => status.text = "[NotFinished]"
                   /\ ~Unfinished(comp) /\ comp.isNotFinished => status.text = "[NotStarted]"
                   /\ ~Unfinished(comp) /\ ~comp.isNotFinished /\ comp.Started =>
                          /\ status.text = "Duration"
                          /\ status.elapsed = Sub(comp.FinishTime, comp.StartTime)
                   /\ ~Unfinished(comp) /\ ~comp.isNotFinished /\ ~comp.Started =>
                          status.text = "[Unknown]"

\* A competitor that started and ended its laps, and is flagged, is printed
\* as NotStarted: rule 2 is met before rule 3.
C1_Witness ==
    /\ pc = "done"
    /\ \E i \in 1..Len(report) :
           /\ competitors[report[i].ID].Started
           /\ competitors[report[i].ID].isNotFinished
           /\ ~Unfinished(competitors[report[i].ID])
           /\ report[i].status.text = "[NotStarted]"

\* C2: an event of a kind 2 to 11 for an identifier that is not registered
\* ends the run in a reported error: no panic, no record made, no going on.
C2_UnregisteredReported ==
    [][(Taken /\ e'.EventID \in startTime..comment
              /\ e'.CompetitorID \notin DOMAIN competitors)
       => (pc' = "error" /\ competitors' = competitors)]_vars

\* C3: a competitor that is disqualified stays disqualified in every later
\* step, whatever the event, a register event for it included.
C3_DisqualifiedForGood ==
    [][\A id \in DOMAIN competitors :
          competitors[id].isDisqualified =>
              id \in DOMAIN competitors' /\ competitors'[id].isDisqualified]_vars

\* C4: in every step, for every competitor, the laps completed and the hits
\* do not decrease and the lap times and penalty times only grow at the end.
C4_OnlyGrows ==
    [][\A id \in DOMAIN competitors :
          /\ id \in DOMAIN competitors'
          /\ competitors'[id].LapsCompleted >= competitors[id].LapsCompleted
          /\ competitors'[id].Hits >= competitors[id].Hits
          /\ IsPrefix(competitors[id].lapTimes, competitors'[id].lapTimes)
          /\ IsPrefix(competitors[id].PenaltyTimes, competitors'[id].PenaltyTimes)]_vars

\* C5 as claimed: a competitor the start interval rule has flagged is
\* printed as NotStarted, whatever events came after.
C5_FlaggedIsNotStarted ==
    pc = "done" =>
        \A i \in 1..Len(report) :
            drawLate[report[i].ID] # "never" => report[i].status.text = "[NotStarted]"

\* C5 as amended: a record the start interval rule has flagged keeps the
\* flag until a register event replaces the record, and is printed as
\* NotFinished if rule 1 applies to it and as NotStarted if not.
C5_FlaggedNeverFinished ==
    /\ \A id \in DOMAIN competitors :
           drawLate[id] = "flagged" => competitors[id].isNotFinished
    /\ pc = "done" =>
           \A i \in 1..Len(report) :
               drawLate[report[i].ID] = "flagged" =>
                   report[i].status.text =
                       IF Unfinished(competitors[report[i].ID])
                       THEN "[NotFinished]" ELSE "[NotStarted]"

\* A record flagged by the start interval rule alone (it never started) that
\* ended its laps is printed as NotStarted.
C5_Witness ==
    /\ pc = "done"
    /\ \E i \in 1..Len(report) :
           /\ drawLate[report[i].ID] = "flagged"
           /\ ~competitors[report[i].ID].Started
           /\ report[i].LapsCompleted = cfg.Laps
           /\ report[i].status.text = "[NotStarted]"

\* C6: with one lap or more configured, a competitor that registered once,
\* drew a start within the interval, started in time and then ended exactly
\* the configured laps, with no comment, has completed the configured laps
\* and is printed as finished; the time printed is the time from its
\* scheduled start to the end of its last lap, and that time is its one
\* lap time.
C6_PlainRaceFinishes ==
    pc = "done" =>
        \A i \in 1..Len(report) :
            LET id == report[i].ID
            IN  (cfg.Laps >= 1 /\ track[id].phase = "started" /\ track[id].ended = cfg.Laps) =>
                    /\ report[i].LapsCompleted = cfg.Laps
                    /\ report[i].status.text = "Duration"
                    /\ report[i].status.elapsed = Sub(track[id].lastLap, competitors[id].StartTime)
                    /\ report[i].lapTimes = <<report[i].status.elapsed>>

\* Such a competitor is printed, with a time that is not zero.
C6_Witness ==
    /\ pc = "done"
    /\ \E i \in 1..Len(report) :
           /\ cfg.Laps >= 1
           /\ track[report[i].ID].phase = "started"
           /\ track[report[i].ID].ended = cfg.Laps
           /\ report[i].status.elapsed # NoDuration

\* C8: when a registered competitor leaves the penalty laps and its penalty
\* start was never set, the step reports an error and adds no penalty time.
C8_LeftPenaltyNeedsStart ==
    [][(/\ Taken
        /\ e'.EventID = leftThePenaltyLaps
        /\ e'.CompetitorID \in DOMAIN competitors
        /\ competitors[e'.CompetitorID].StartPenalty = ZeroTime)
       => (/\ pc' = "error"
           /\ competitors'[e'.CompetitorID].PenaltyTimes
                  = competitors[e'.CompetitorID].PenaltyTimes)]_vars

\* The sequence s with the event ev put behind every event of s that is not
\* after ev.
RECURSIVE PutBehind(_, _)
PutBehind(s, ev) ==
    IF s = <<>> THEN <<ev>>
    ELSE IF Before(ev.Time, s[Len(s)].Time)
         THEN Append(PutBehind(SubSeq(s, 1, Len(s) - 1), ev), s[Len(s)])
         ELSE Append(s, ev)

\* The events of s in the order of their times, events of one time in the
\* order they have in s.
RECURSIVE StableOrder(_)
StableOrder(s) ==
    IF s = <<>> THEN <<>>
    ELSE PutBehind(StableOrder(SubSeq(s, 1, Len(s) - 1)), s[Len(s)])

\* C7: the loop takes the events in the order of their times, and events of
\* one time in the order they have in the input.
C7_StableTimeOrder ==
    pc \in {"loop", "panic", "done"} =>
        /\ InTimeOrder(events)
        /\ events = StableOrder(input)
        /\ pos > 0 => e = events[pos]

\* Whether strconv takes the string as a number.
Numeric(s) == s # <<>> /\ AllDigits(s)
NumericSeconds(s) ==
    \E p \in 1..(Len(s) + 1) :
        /\ AllDigits(SubSeq(s, 1, p - 1))
        /\ p <= Len(s) => s[p] = "." /\ AllDigits(From(s, p + 1))
        /\ \E i \in 1..Len(s) : IsDigit(s[i])

\* The string is no start interval: it has not three fields between colons,
\* or its hours, minutes or seconds are no number.
Malformed(s) ==
    LET colons == {i \in 1..Len(s) : s[i] = ":"}
    IN  \/ Cardinality(colons) # 2
        \/ \E i, j \in colons :
               /\ i < j
               /\ \/ ~Numeric(SubSeq(s, 1, i - 1))
                  \/ ~Numeric(SubSeq(s, i + 1, j - 1))
                  \/ ~NumericSeconds(From(s, j + 1))

\* C9: parseDelta returns an error for every malformed start interval, so
\* main stops with the message about startDelta.
C9_MalformedDeltaRejected ==
    (pc # "config" /\ Malformed(cfg.StartDelta)) => pc = "badDelta"

\* The milliseconds the string HH:MM:SS or HH:MM:SS.mmm stands for.
FormMillis(s) ==
    DecVal(SubSeq(s, 1, 2)) * MsPerHour + DecVal(SubSeq(s, 4, 5)) * MsPerMinute
    + DecVal(SubSeq(s, 7, 8)) * MsPerSecond
    + (IF Len(s) = 12 THEN DecVal(SubSeq(s, 10, 12)) ELSE 0)

\* C11: for every start interval of the form HH:MM:SS or HH:MM:SS.mmm,
\* parseDelta returns no error and the duration of H hours, M minutes,
\* S seconds and mmm milliseconds, whatever the milliseconds from 000 to 999.
C11_DeltaExact ==
    pc # "config" =>
        /\ pc = "events"
        /\ ~parseDelta(cfg.StartDelta).err
        /\ parseDelta(cfg.StartDelta).d = FormMillis(cfg.StartDelta)

\* The loop takes a startTime event of a registered competitor in this step.
Draws ==
    Taken /\ e'.EventID = startTime /\ e'.CompetitorID \in DOMAIN competitors

\* The start time the startTime event taken last stored, or the start of the
\* race if none was taken.
LastDrawn == IF hist.lastDraw.any THEN hist.lastDraw.at ELSE baseStart

\* The start time of the competitor registered just before id, or the start
\* of the race if id was the first to register.
PreviousRegistered(id) ==
    LET i == CHOOSE k \in 1..Len(hist.regOrder) : hist.regOrder[k] = id
    IN  IF i = 1 THEN baseStart ELSE competitors[hist.regOrder[i - 1]].StartTime

\* C12 as claimed: a startTime event flags the competitor when its drawn
\* start is more than the start interval after the start of the competitor
\* registered just before it, or after the start of the race if it was the
\* first to register.
C12_BaselineByRegistration ==
    [][Draws =>
          (Longer(Sub(competitors'[e'.CompetitorID].StartTime,
                      PreviousRegistered(e'.CompetitorID)), delta)
           => competitors'[e'.CompetitorID].isNotFinished)]_vars

\* C12 as amended: a startTime event flags the competitor when its drawn
\* start is more than the start interval after the start time stored by the
\* startTime event taken last, whichever competitor that was for, or after
\* the start of the race if no startTime event was taken before.
C12_BaselineByLastDraw ==
    [][Draws =>
          (Longer(Sub(competitors'[e'.CompetitorID].StartTime, LastDrawn), delta)
           => competitors'[e'.CompetitorID].isNotFinished)]_vars

\* The competitor registered first draws a start more than the interval
\* after the start of the race, after another competitor has drawn, and is
\* not flagged.
C12_Witness ==
    /\ pc = "loop"
    /\ e.EventID = startTime
    /\ Len(hist.regOrder) >= 2
    /\ e.CompetitorID = hist.regOrder[1]
    /\ Len(startOrder) >= 2
    /\ startOrder[Len(startOrder) - 1].ID # e.CompetitorID
    /\ Longer(Sub(competitors[e.CompetitorID].StartTime, baseStart), delta)
    /\ ~competitors[e.CompetitorID].isNotFinished

\* C13: the start time a startTime event compares with is the one stored by
\* the startTime event taken last, of whichever competitor, or the start of
\* the race if there was none; the event sets the flag exactly when the
\* drawn start less that baseline is strictly more than the start interval,
\* and leaves the flag as it was if not.
C13_RunningBaseline ==
    [][Draws =>
          /\ previous = LastDrawn
          /\ previous' = competitors'[e'.CompetitorID].StartTime
          /\ competitors'[e'.CompetitorID].isNotFinished =
                 IF Longer(Sub(competitors'[e'.CompetitorID].StartTime, LastDrawn), delta)
                 THEN TRUE ELSE competitors[e'.CompetitorID].isNotFinished]_vars

\* A flagged competitor draws again, within the interval of the draw before,
\* and keeps its flag.
C13_Witness ==
    /\ pc = "loop"
    /\ e.EventID = startTime
    /\ Len(startOrder) >= 2
    /\ competitors[e.CompetitorID].isNotFinished
    /\ ~Longer(Sub(competitors[e.CompetitorID].StartTime,
                   startOrder[Len(startOrder) - 1].StartTime), delta)

\* The loop takes an event of kind k for a registered competitor in this step.
TakenFor(k) ==
    Taken /\ e'.EventID = k /\ e'.CompetitorID \in DOMAIN competitors

\* The step changes the record of the event's competitor to c and nothing
\* else of the registry, and leaves startOrder as it is.
OnlyRecord(c) ==
    /\ competitors' = [competitors EXCEPT ![e'.CompetitorID] = c]
    /\ startOrder' = startOrder

\* C14: an isStarted event of a registered competitor sets Started, sets the
\* not-started flag exactly when the time of the event is strictly after the
\* scheduled start plus the start interval (a start at that very moment is
\* not late), sets no disqualification and changes no other field.
C14_LateStart ==
    [][TakenFor(isStarted) =>
          LET comp == competitors[e'.CompetitorID]
          IN  OnlyRecord([comp EXCEPT
                  !.Started = TRUE,
                  !.isNotFinished = IF After(e'.Time, Add(comp.StartTime, delta))
                                    THEN TRUE ELSE @])]_vars

\* A competitor starts at the very end of its interval and is not flagged.
C14_Witness ==
    /\ pc = "loop"
    /\ e.EventID = isStarted
    /\ e.CompetitorID \in DOMAIN competitors
    /\ e.Time = Add(competitors[e.CompetitorID].StartTime, delta)
    /\ competitors[e.CompetitorID].Started
    /\ ~competitors[e.CompetitorID].isNotFinished

\* C15: an endedTheMainLap event of a registered competitor adds one to the
\* laps completed, sets the finish time to the time of the event, and
\* appends the time since the scheduled start to the lap times if and only
\* if there was no lap time yet and the new count of laps is the configured
\* one; so these events append at most one lap time per registration.
C15_EndedMainLap ==
    [][TakenFor(endedTheMainLap) =>
          LET comp == competitors[e'.CompetitorID]
          IN  /\ OnlyRecord([comp EXCEPT
                     !.LapsCompleted = @ + 1,
                     !.FinishTime = e'.Time,
                     !.lapTimes = IF Len(@) = 0 /\ comp.LapsCompleted + 1 = cfg.Laps
                                  THEN Append(@, Sub(e'.Time, comp.StartTime)) ELSE @])
              /\ hist'.lapAppends[e'.CompetitorID] <= 1]_vars

\* A competitor ends a lap beyond the configured ones: its finish time moves
\* and the one lap time appended before stays alone.
C15_Witness ==
    /\ pc = "loop"
    /\ e.EventID = endedTheMainLap
    /\ e.CompetitorID \in DOMAIN competitors
    /\ hist.lapAppends[e.CompetitorID] = 1
    /\ competitors[e.CompetitorID].LapsCompleted > cfg.Laps
    /\ Len(competitors[e.CompetitorID].lapTimes) = 1
    /\ competitors[e.CompetitorID].FinishTime = e.Time

\* C16: a comment event always disqualifies, and appends the time since the
\* scheduled start to the lap times only while the laps completed are fewer
\* than the configured laps: with as many laps or more the lap times are
\* left as they are.
C16_CommentPartialLap ==
    [][TakenFor(comment) =>
          LET comp == competitors[e'.CompetitorID]
          IN  OnlyRecord([comp EXCEPT
                  !.isDisqualified = TRUE,
                  !.lapTimes = IF comp.LapsCompleted < cfg.Laps
                               THEN Append(@, Sub(e'.Time, comp.StartTime)) ELSE @])]_vars

\* C17: a startLine, onTheFiringRange or leftTheFiringRange event of a
\* registered competitor, and an event of a kind outside 1..11 for any
\* identifier, leaves every record and the start time the next draw is
\* compared with (read from startOrder and the configuration) as they are,
\* and the loop goes on.
C17_PrintOnly ==
    [][(/\ Taken
        /\ IF e'.EventID \in {startLine, onTheFiringRange, leftTheFiringRange}
           THEN e'.CompetitorID \in DOMAIN competitors
           ELSE e'.EventID \notin register..comment)
       => /\ competitors' = competitors
          /\ startOrder' = startOrder
          /\ cfg' = cfg
          /\ pc' = "loop"]_vars

\* After an event that is only printed, a hit is counted.
C17_Witness ==
    /\ pc = "loop"
    /\ hist.skipped
    /\ e.EventID = hit
    /\ e.CompetitorID \in DOMAIN competitors
    /\ competitors[e.CompetitorID].Hits = 1

\* C18: when a registered competitor that entered the penalty laps at least
\* once before leaves them, exactly one penalty time is appended: the time
\* of the event less the time of the last enteredThePenaltyLaps event of
\* that competitor, which is not negative.
C18_PenaltyTime ==
    [][(TakenFor(leftThePenaltyLaps) /\ hist.entered[e'.CompetitorID].any) =>
          LET comp == competitors[e'.CompetitorID]
              spent == Sub(e'.Time, hist.entered[e'.CompetitorID].at)
          IN  /\ OnlyRecord([comp EXCEPT !.PenaltyTimes = Append(@, spent)])
              /\ ~Longer(NoDuration, spent)]_vars

\* C19: whatever the events, a competitor printed with a finish time has
\* exactly one lap time and has completed the configured laps, and no
\* competitor is printed so when the configured laps are 0.
C19_FinishedHasOneLap ==
    pc = "done" =>
        \A i \in 1..Len(report) :
            report[i].status.text = "Duration" =>
                /\ Len(report[i].lapTimes) = 1
                /\ report[i].LapsCompleted = cfg.Laps
                /\ cfg.Laps # 0

\* A competitor off the plain race (registered twice, no start drawn, or a
\* start drawn twice) is printed with a finish time.
C19_Witness ==
    /\ pc = "done"
    /\ \E i \in 1..Len(report) :
           /\ report[i].status.text = "Duration"
           /\ track[report[i].ID].phase = "off"
           /\ Len(report[i].lapTimes) = 1

\* C20: for every startDelta parseDelta accepts, the interval the startTime
\* case compares with (startDelta parsed as a time of day, less midnight) is
\* the interval the isStarted case adds (the result of parseDelta).
C20_SameInterval ==
    pc = "events" => interval = delta

====
